---- MODULE Spec2Model ----
(***************************************************************************)
(* Model of horizons/messaging/messagebus.py: MessageBus, its subclass     *)
(* QueuingMessageBus, and SimpleMessageBus.                                *)
(*                                                                         *)
(* Every method is one operator on an execution context X, a record of the *)
(* object's fields (g = global_receivers, l = local_receivers,             *)
(* q = message_queue) plus what the call produced so far: the callback     *)
(* invocations (calls), the exception in flight (err) and whether a loop   *)
(* was found never to terminate (hung).  Callbacks are application code:   *)
(* a callback may return, raise, or call the bus again while it runs.      *)
(***************************************************************************)
EXTENDS Integers, Sequences, FiniteSets, TLC

\* Bounds of the model: registrations held by the bus, pending messages.
MaxSubs == 3
MaxQueue == 2

None == "None"

\* Python objects: a message class, and an instance of it with its sender.
Class(n) == [kind |-> "class", name |-> n]
Message(T, s) == [kind |-> "instance", class |-> T, sender |-> s]

MessageTypes == {Class("T1"), Class("T2")}
Senders == {"A", "B"}
Pairs == MessageTypes \X Senders
OtherSender(s) == IF s = "A" THEN "B" ELSE "A"
NoClass == Class("-")

\* What the application sends and where it subscribes locally: T1 comes from
\* both senders, T2 from A only, and local subscriptions are taken on T1.
Messages == {Message(Class("T1"), "A"), Message(Class("T1"), "B"), Message(Class("T2"), "A")}
LocalPairs == {Class("T1")} \X Senders

\* SimpleMessageBus: the type tags an application uses (baz is in no bus's
\* message_types) and the arguments it broadcasts.
Tags == {"foo", "bar", "baz"}
Payloads == {1, 42}

\* The callbacks an application registers.  p and q only return; once
\* removes its own subscriptions when called; adder subscribes p (globally)
\* for the type it was called with; relay removes its own subscriptions and
\* broadcasts again (on a MessageBus a message of the same type from the
\* other sender); boom raises an error.
Plain == {"p", "q"}
Callbacks == {"p", "q", "once", "adder", "relay", "boom"}
Returning == {{"p", "q"}}
Reentrant == {{"p", "once"}, {"p", "adder"}, {"p", "relay"}}
Raising == {{"p", "boom"}}

VARIABLES
  cls,               \* class of the instance: MessageBus, QueuingMessageBus
                     \* or SimpleMessageBus
  app,               \* the callbacks the application uses
  global_receivers,  \* {MessageType: [callbacks]}
  local_receivers,   \* {(MessageType, instance): [callbacks]}
  message_queue,     \* {MessageType: deque of messages} (QueuingMessageBus)
  _message_types,    \* the types a SimpleMessageBus was built with
  _callbacks,        \* {type: [callbacks]} (SimpleMessageBus)
  op,                \* the last call made on the bus
  entry,             \* the bus's fields when that call was made
  calls,             \* the callback invocations that call produced, in order
  err,               \* the exception it ended with, or None
  hung,              \* it never returned
  log,               \* the diagnostic entries it emitted
  old                \* callbacks subscribed on a released instance and not
                     \* subscribed since

vars == <<cls, app, global_receivers, local_receivers, message_queue,
          _message_types, _callbacks, op, entry, calls, err, hung, log, old>>

\* ---------------------------------------------------------------- lists

In(x, s) == \E i \in 1..Len(s) : s[i] = x

\* list.index of the first occurrence (the caller checks In first).
IndexOf(x, s) == CHOOSE i \in 1..Len(s) : s[i] = x /\ \A j \in 1..(i - 1) : s[j] # x

\* list.remove / deque.remove: drops the first occurrence only.
Remove(x, s) ==
  LET i == IndexOf(x, s) IN SubSeq(s, 1, i - 1) \o SubSeq(s, i + 1, Len(s))

RECURSIVE SumLen(_, _)
SumLen(f, keys) ==
  IF keys = {} THEN 0
  ELSE LET k == CHOOSE k \in keys : TRUE IN Len(f[k]) + SumLen(f, keys \ {k})

Fields(X) == [g |-> X.g, l |-> X.l, q |-> X.q]

Raise(X, e) == [X EXCEPT !.err = e]

\* ------------------------------------------------------------ MessageBus

MessageBus_init ==
  [g |-> [T \in MessageTypes |-> <<>>],
   l |-> [pr \in Pairs |-> <<>>]]

MessageBus_subscribe_globally(X, messagetype, callback) ==
  [X EXCEPT !.g[messagetype] = Append(@, callback)]

MessageBus_subscribe_locally(X, messagetype, instance, callback) ==
  [X EXCEPT !.l[<<messagetype, instance>>] = Append(@, callback)]

\* Variant of unsubscribe_globally without the assertion: an unregistered
\* callback is ignored.
unsubscribe_globally_Silent(X, messagetype, callback) ==
  IF ~In(callback, X.g[messagetype]) THEN X
  ELSE [X EXCEPT !.g[messagetype] = Remove(callback, @)]

unsubscribe_globally(X, messagetype, callback) ==
  IF ~In(callback, X.g[messagetype]) THEN Raise(X, "AssertionError")
  ELSE [X EXCEPT !.g[messagetype] = Remove(callback, @)]

unsubscribe_locally(X, messagetype, instance, callback) ==
  LET pair == <<messagetype, instance>> IN
  IF ~In(callback, X.l[pair]) THEN Raise(X, "AssertionError")
  ELSE [X EXCEPT !.l[pair] = Remove(callback, @)]

\* Variant of discard_globally without the membership test.
discard_globally_Unchecked(X, messagetype, callback) ==
  unsubscribe_globally(X, messagetype, callback)

discard_globally(X, messagetype, callback) ==
  IF In(callback, X.g[messagetype])
  THEN unsubscribe_globally(X, messagetype, callback)
  ELSE X

discard_locally(X, messagetype, instance, callback) ==
  LET pair == <<messagetype, instance>> IN
  IF pair \in DOMAIN X.l /\ In(callback, X.l[pair])
  THEN unsubscribe_locally(X, messagetype, instance, callback)
  ELSE X

RECURSIVE Invoke(_, _, _, _)
RECURSIVE GlobalLoop(_, _, _, _)
RECURSIVE LocalLoop(_, _, _, _)
RECURSIVE QueuingMessageBus_broadcast(_, _, _)
RECURSIVE QueuingMessageBus_subscribe_globally(_, _, _, _)
RECURSIVE ReplayLoop(_, _, _, _)

\* Variant of the dispatch loop that catches what a callback raises and goes
\* on with the next callback.
GlobalLoop_Swallow(X, message, i, d) ==
  LET cbs == X.g[message.class] IN
  IF X.err # None \/ X.hung \/ i > Len(cbs) THEN X
  ELSE GlobalLoop([Invoke(X, cbs[i], message, d) EXCEPT !.err = None],
                  message, i + 1, d)

\* for callback in self.global_receivers[messagetype]: callback(message)
\* A Python list iterator holds the list and an index: each step reads the
\* list as it is then.
GlobalLoop(X, message, i, d) ==
  LET cbs == X.g[message.class] IN
  IF X.err # None \/ X.hung \/ i > Len(cbs) THEN X
  ELSE GlobalLoop(Invoke(X, cbs[i], message, d), message, i + 1, d)

\* for callback in self.local_receivers[pair]: callback(message)
LocalLoop(X, message, i, d) ==
  LET cbs == X.l[<<message.class, message.sender>>] IN
  IF X.err # None \/ X.hung \/ i > Len(cbs) THEN X
  ELSE LocalLoop(Invoke(X, cbs[i], message, d), message, i + 1, d)

MessageBus_broadcast(X, message, d) ==
  LocalLoop(GlobalLoop(X, message, 1, d), message, 1, d)

\* ----------------------------------------------------- QueuingMessageBus

QueuingMessageBus_init ==
  [g |-> MessageBus_init.g, l |-> MessageBus_init.l,
   q |-> [T \in MessageTypes |-> <<>>]]

\* Variant of QueuingMessageBus.broadcast that keeps every message in the
\* queue, dispatched or not.
QueuingMessageBus_broadcast_KeepAll(X, message, d) ==
  LET kept == [X EXCEPT !.q[message.class] = Append(@, message)] IN
  IF Len(X.g[message.class]) = 0 /\ Len(X.l[<<message.class, message.sender>>]) = 0
  THEN kept
  ELSE MessageBus_broadcast(kept, message, d)

\* Variant of QueuingMessageBus.broadcast that tests the global list only.
QueuingMessageBus_broadcast_GlobalOnly(X, message, d) ==
  IF Len(X.g[message.class]) = 0
  THEN [X EXCEPT !.q[message.class] = Append(@, message)]
  ELSE MessageBus_broadcast(X, message, d)

QueuingMessageBus_broadcast(X, message, d) ==
  LET messagetype == message.class
      pair == <<messagetype, message.sender>> IN
  IF Len(X.g[messagetype]) = 0 /\ Len(X.l[pair]) = 0
  THEN [X EXCEPT !.q[messagetype] = Append(@, message)]
  ELSE MessageBus_broadcast(X, message, d)

\* Variant of the replay that broadcasts every pending message and leaves
\* the queue as it is.
RECURSIVE ReplayAll(_, _, _, _)
ReplayAll(X, msgs, i, d) ==
  IF X.err # None \/ X.hung \/ i > Len(msgs) THEN X
  ELSE ReplayAll(QueuingMessageBus_broadcast(X, msgs[i], d), msgs, i + 1, d)

ReplayLoop_NoRemove(X, messagetype, d, seen) ==
  ReplayAll(X, X.q[messagetype], 1, d)

\* while len(self.message_queue[messagetype]):
\*     self.broadcast(self.message_queue[messagetype].popleft())
\* seen holds the fields at every earlier test of the loop condition: the
\* loop is deterministic, so meeting the same fields again means that it
\* never ends.
ReplayLoop(X, messagetype, d, seen) ==
  IF X.err # None \/ X.hung \/ Len(X.q[messagetype]) = 0 THEN X
  ELSE IF Fields(X) \in seen THEN [X EXCEPT !.hung = TRUE]
  ELSE LET message == Head(X.q[messagetype])
           popped == [X EXCEPT !.q[messagetype] = Tail(@)]
       IN ReplayLoop(QueuingMessageBus_broadcast(popped, message, d),
                     messagetype, d, seen \cup {Fields(X)})

\* Variant of QueuingMessageBus.subscribe_globally without the replay.
QueuingMessageBus_subscribe_globally_NoReplay(X, messagetype, callback, d) ==
  MessageBus_subscribe_globally(X, messagetype, callback)

QueuingMessageBus_subscribe_globally(X, messagetype, callback, d) ==
  ReplayLoop(MessageBus_subscribe_globally(X, messagetype, callback),
             messagetype, d, {})

\* if (message, message.sender) == (messagetype, instance)
ReplayFilter(message, messagetype, instance) ==
  <<message, message.sender>> = <<messagetype, instance>>

\* for message in self.message_queue[messagetype]: a deque iterator raises
\* RuntimeError at its next step once the deque was mutated.
RECURSIVE ScanLoop(_, _, _, _, _)
ScanLoop(X, messagetype, instance, i, d) ==
  LET dq == X.q[messagetype] IN
  IF X.err # None \/ X.hung \/ i > Len(dq) THEN X
  ELSE IF ReplayFilter(dq[i], messagetype, instance)
  THEN LET sent == QueuingMessageBus_broadcast(X, dq[i], d) IN
       IF sent.err # None \/ sent.hung THEN sent
       ELSE IF ~In(dq[i], sent.q[messagetype]) THEN Raise(sent, "ValueError")
       ELSE Raise([sent EXCEPT !.q[messagetype] = Remove(dq[i], @)],
                  "RuntimeError")
  ELSE ScanLoop(X, messagetype, instance, i + 1, d)

QueuingMessageBus_subscribe_locally(X, messagetype, instance, callback, d) ==
  ScanLoop(MessageBus_subscribe_locally(X, messagetype, instance, callback),
           messagetype, instance, 1, d)

\* Variant of clear that empties the queue of every type.
clear_AllTypes(X, messagetype) == [X EXCEPT !.q = [T \in MessageTypes |-> <<>>]]

clear(X, messagetype) == [X EXCEPT !.q[messagetype] = <<>>]

queue_len(messagetype) == Len(message_queue[messagetype])

\* ----------------------------------------------------------------- reset

\* Variant of the leftover report that looks at the global registry only.
Leftover_GlobalOnly(X) ==
  {[registry |-> "global", key |-> T, cb |-> X.g[T]] :
     T \in {U \in MessageTypes : Len(X.g[U]) > 0}}

\* for messagetype, cb_list in self.global_receivers.iteritems():
\*     if cb_list: self.log.debug(...)
\* and the same for self.local_receivers: one entry per key whose list is
\* not empty.
Leftover(X) ==
  {[registry |-> "global", key |-> T, cb |-> X.g[T]] :
     T \in {U \in MessageTypes : Len(X.g[U]) > 0}}
  \cup {[registry |-> "local", key |-> pr, cb |-> X.l[pr]] :
          pr \in {r \in Pairs : Len(X.l[r]) > 0}}

\* Singleton.destroy_instance(): the shared instance is released, and the
\* next access constructs a new one with __init__.  The fields are those of
\* that next instance.
destroy_instance(X) ==
  [X EXCEPT !.g = QueuingMessageBus_init.g,
            !.l = QueuingMessageBus_init.l,
            !.q = QueuingMessageBus_init.q]

reset(X) == destroy_instance([X EXCEPT !.log = @ \cup Leftover(X)])

\* ------------------------------------------------------------- callbacks

\* self.broadcast / bus.broadcast resolve by the class of the instance.
broadcast(X, message, d) ==
  IF cls = "QueuingMessageBus" THEN QueuingMessageBus_broadcast(X, message, d)
  ELSE MessageBus_broadcast(X, message, d)

subscribe_globally(X, messagetype, callback, d) ==
  IF cls = "QueuingMessageBus"
  THEN QueuingMessageBus_subscribe_globally(X, messagetype, callback, d)
  ELSE MessageBus_subscribe_globally(X, messagetype, callback)

subscribe_locally(X, messagetype, instance, callback, d) ==
  IF cls = "QueuingMessageBus"
  THEN QueuingMessageBus_subscribe_locally(X, messagetype, instance, callback, d)
  ELSE MessageBus_subscribe_locally(X, messagetype, instance, callback)

\* callback(message): the call is recorded, then the callback's body runs.
Invoke(X, callback, message, d) ==
  LET T == message.class
      s == message.sender
      Y == [X EXCEPT !.calls = Append(@, [cb |-> callback, msg |-> message, depth |-> d])]
      gone == discard_locally(discard_globally(Y, T, callback), T, s, callback)
  IN CASE callback = "once" -> gone
       [] callback = "adder" -> subscribe_globally(Y, T, "p", d + 1)
       [] callback = "relay" -> broadcast(gone, Message(T, OtherSender(s)), d + 1)
       [] callback = "boom" -> Raise(Y, "CallbackError")
       [] OTHER -> Y

\* ------------------------------------------------------ SimpleMessageBus

SimpleMessageBus_init(message_types) ==
  [types |-> message_types, cbs |-> [t \in Tags |-> <<>>]]

SimpleFields(X) == [types |-> X.types, cbs |-> X.cbs]

\* Variant of SimpleMessageBus.subscribe without the type test.
subscribe_AnyType(X, type, callback) ==
  IF In(callback, X.cbs[type]) THEN Raise(X, "Exception")
  ELSE [X EXCEPT !.cbs[type] = Append(@, callback)]

\* Variant of SimpleMessageBus.subscribe without the duplicate test.
subscribe_NoDuplicateTest(X, type, callback) ==
  IF type \notin X.types THEN Raise(X, "TypeError")
  ELSE [X EXCEPT !.cbs[type] = Append(@, callback)]

subscribe(X, type, callback) ==
  IF type \notin X.types THEN Raise(X, "TypeError")
  ELSE IF In(callback, X.cbs[type]) THEN Raise(X, "Exception")
  ELSE [X EXCEPT !.cbs[type] = Append(@, callback)]

\* list.remove raises ValueError when the value is not in the list.
unsubscribe(X, type, callback) ==
  IF ~In(callback, X.cbs[type]) THEN Raise(X, "ValueError")
  ELSE [X EXCEPT !.cbs[type] = Remove(callback, @)]

discard(X, type, callback) ==
  IF In(callback, X.cbs[type])
  THEN [X EXCEPT !.cbs[type] = Remove(callback, @)]
  ELSE X

RECURSIVE SimpleInvoke(_, _, _, _, _)
RECURSIVE SimpleLoop(_, _, _, _, _)

\* for cb in self._callbacks[type]: cb(*args, **kwargs)
SimpleLoop(X, type, args, i, d) ==
  LET cbs == X.cbs[type] IN
  IF X.err # None \/ i > Len(cbs) THEN X
  ELSE SimpleLoop(SimpleInvoke(X, cbs[i], type, args, d), type, args, i + 1, d)

SimpleMessageBus_broadcast(X, type, args, d) ==
  IF type \notin X.types THEN X
  ELSE SimpleLoop(X, type, args, 1, d)

\* cb(*args): a callback knows the type it was subscribed for.
SimpleInvoke(X, callback, type, args, d) ==
  LET Y == [X EXCEPT !.calls = Append(@, [cb |-> callback, msg |-> args, depth |-> d])]
      gone == discard(Y, type, callback)
  IN CASE callback = "once" -> gone
       [] callback = "adder" -> subscribe(Y, type, "p")
       [] callback = "relay" -> SimpleMessageBus_broadcast(gone, type, args, d + 1)
       [] callback = "boom" -> Raise(Y, "CallbackError")
       [] OTHER -> Y

\* --------------------------------------------------------------- actions

Self == [g |-> global_receivers, l |-> local_receivers, q |-> message_queue,
         calls |-> <<>>, err |-> None, hung |-> FALSE, log |-> {}]

SimpleSelf == [types |-> _message_types, cbs |-> _callbacks,
               calls |-> <<>>, err |-> None]

TotalSubs(X) == SumLen(X.g, MessageTypes) + SumLen(X.l, Pairs)
TotalQueue(X) == SumLen(X.q, MessageTypes)

Call(name, messagetype, instance, callback) ==
  [name |-> name, type |-> messagetype, inst |-> instance, cb |-> callback]

SimpleCall(name, type, callback, args) ==
  [name |-> name, type |-> type, cb |-> callback, args |-> args]

\* The bus after a call that ran from Self to X.
Return(X, call) ==
  /\ cls \in {"MessageBus", "QueuingMessageBus"}
  /\ ~hung
  /\ TotalSubs(X) <= MaxSubs
  /\ TotalQueue(X) <= MaxQueue
  /\ global_receivers' = X.g
  /\ local_receivers' = X.l
  /\ message_queue' = X.q
  /\ calls' = X.calls
  /\ err' = X.err
  /\ hung' = X.hung
  /\ entry' = Fields(Self)
  /\ op' = call
  /\ log' = X.log
  /\ old' = IF call.name \in {"subscribe_globally", "subscribe_locally"}
            THEN old \ {call.cb} ELSE old
  /\ UNCHANGED <<cls, app, _message_types, _callbacks>>

SimpleReturn(X, call) ==
  /\ cls = "SimpleMessageBus"
  /\ _message_types' = X.types
  /\ _callbacks' = X.cbs
  /\ calls' = X.calls
  /\ err' = X.err
  /\ entry' = SimpleFields(SimpleSelf)
  /\ op' = call
  /\ UNCHANGED <<cls, app, global_receivers, local_receivers, message_queue,
                 hung, log, old>>

SubscribeGlobally ==
  \E T \in MessageTypes, cb \in app :
    /\ TotalSubs(Self) < MaxSubs
    /\ Return(subscribe_globally(Self, T, cb, 0), Call("subscribe_globally", T, None, cb))

SubscribeLocally ==
  \E pair \in LocalPairs, cb \in app :
    /\ TotalSubs(Self) < MaxSubs
    /\ Return(subscribe_locally(Self, pair[1], pair[2], cb, 0),
              Call("subscribe_locally", pair[1], pair[2], cb))

UnsubscribeGlobally ==
  \E T \in MessageTypes, cb \in app :
    Return(unsubscribe_globally(Self, T, cb), Call("unsubscribe_globally", T, None, cb))

UnsubscribeLocally ==
  \E pair \in LocalPairs, cb \in app :
    Return(unsubscribe_locally(Self, pair[1], pair[2], cb),
           Call("unsubscribe_locally", pair[1], pair[2], cb))

DiscardGlobally ==
  \E T \in MessageTypes, cb \in app :
    Return(discard_globally(Self, T, cb), Call("discard_globally", T, None, cb))

DiscardLocally ==
  \E pair \in LocalPairs, cb \in app :
    Return(discard_locally(Self, pair[1], pair[2], cb),
           Call("discard_locally", pair[1], pair[2], cb))

Broadcast ==
  \E m \in Messages :
    Return(broadcast(Self, m, 0), Call("broadcast", m.class, m.sender, None))

Clear ==
  \E T \in MessageTypes :
    /\ cls = "QueuingMessageBus"
    /\ Return(clear(Self, T), Call("clear", T, None, None))

SimpleSubscribe ==
  \E t \in Tags, cb \in app :
    SimpleReturn(subscribe(SimpleSelf, t, cb), SimpleCall("subscribe", t, cb, None))

SimpleUnsubscribe ==
  \E t \in Tags, cb \in app :
    SimpleReturn(unsubscribe(SimpleSelf, t, cb), SimpleCall("unsubscribe", t, cb, None))

SimpleDiscard ==
  \E t \in Tags, cb \in app :
    SimpleReturn(discard(SimpleSelf, t, cb), SimpleCall("discard", t, cb, None))

SimpleBroadcast ==
  \E t \in Tags, args \in Payloads :
    SimpleReturn(SimpleMessageBus_broadcast(SimpleSelf, t, args, 0),
                 SimpleCall("broadcast", t, None, args))

\* MessageBus.reset() (inherited by QueuingMessageBus).
Reset ==
  LET X == reset(Self) IN
  /\ cls \in {"MessageBus", "QueuingMessageBus"}
  /\ ~hung
  /\ global_receivers' = X.g
  /\ local_receivers' = X.l
  /\ message_queue' = X.q
  /\ calls' = X.calls
  /\ err' = X.err
  /\ hung' = X.hung
  /\ log' = X.log
  /\ old' = old \cup {c \in Callbacks :
                        \/ \E T \in MessageTypes : In(c, global_receivers[T])
                        \/ \E pr \in Pairs : In(c, local_receivers[pr])}
  /\ entry' = Fields(Self)
  /\ op' = Call("reset", NoClass, None, None)
  /\ UNCHANGED <<cls, app, _message_types, _callbacks>>

\* A new instance of one of the three classes; SimpleMessageBus(('foo', 'bar')).
Start(apps) ==
  /\ cls \in {"MessageBus", "QueuingMessageBus", "SimpleMessageBus"}
  /\ app \in apps
  /\ global_receivers = QueuingMessageBus_init.g
  /\ local_receivers = QueuingMessageBus_init.l
  /\ message_queue = QueuingMessageBus_init.q
  /\ _message_types = SimpleMessageBus_init({"foo", "bar"}).types
  /\ _callbacks = SimpleMessageBus_init({"foo", "bar"}).cbs
  /\ op = Call("__init__", NoClass, None, None)
  /\ entry = IF cls = "SimpleMessageBus"
             THEN SimpleMessageBus_init({"foo", "bar"})
             ELSE QueuingMessageBus_init
  /\ calls = <<>>
  /\ err = None
  /\ hung = FALSE
  /\ log = {}
  /\ old = {}

Next ==
  \/ SubscribeGlobally
  \/ SubscribeLocally
  \/ UnsubscribeGlobally
  \/ UnsubscribeLocally
  \/ DiscardGlobally
  \/ DiscardLocally
  \/ Broadcast
  \/ Clear
  \/ SimpleSubscribe
  \/ SimpleUnsubscribe
  \/ SimpleDiscard
  \/ SimpleBroadcast

Init == Start(Returning)
InitReentrant == Start(Reentrant)
InitRaising == Start(Raising)

\* Callbacks that only return.
Spec == Init /\ [][Next]_vars
\* Callbacks that call the bus while they run.
SpecReentrant == InitReentrant /\ [][Next]_vars

\* A callback that raises.
SpecRaising == InitRaising /\ [][Next]_vars

\* The shared instance with its reset; callbacks that only return.
NextReset == Next \/ Reset
SpecReset == Init /\ [][NextReset]_vars

\* ------------------------------------------------------------ properties

IsBus == cls \in {"MessageBus", "QueuingMessageBus"}
IsQueuing == cls = "QueuingMessageBus"
IsSimple == cls = "SimpleMessageBus"

\* The last call returned normally.
Returned == err = None /\ ~hung

Now == [g |-> global_receivers, l |-> local_receivers, q |-> message_queue]
SimpleNow == [types |-> _message_types, cbs |-> _callbacks]

Count(x, s) == Cardinality({i \in 1..Len(s) : s[i] = x})

\* The invocations made by the call itself, not by a call a callback made.
Direct == SelectSeq(calls, LAMBDA c : c.depth = 0)
DirectTo(cb) == SelectSeq(calls, LAMBDA c : c.depth = 0 /\ c.cb = cb)

\* One invocation of cb per message of msgs, in order.
Deliveries(cb, msgs) ==
  [i \in 1..Len(msgs) |-> [cb |-> cb, msg |-> msgs[i], depth |-> 0]]

\* r is s without its first occurrence of x.
WithoutFirst(r, s, x) ==
  \E i \in 1..Len(s) :
    /\ s[i] = x
    /\ \A j \in 1..(i - 1) : s[j] # x
    /\ Len(r) = Len(s) - 1
    /\ \A j \in 1..Len(r) : r[j] = IF j < i THEN s[j] ELSE s[j + 1]

\* C1: a broadcast that dispatches invokes, with the message, the callbacks
\* registered globally for its type when it was called, in registration
\* order, and then those registered locally for its type and sender, in
\* registration order, one invocation per registration.
C1_BroadcastOrder ==
  (/\ IsBus
   /\ op.name = "broadcast"
   /\ Returned
   /\ \/ cls = "MessageBus"
      \/ entry.g[op.type] # <<>>
      \/ entry.l[<<op.type, op.inst>>] # <<>>)
  => LET G == entry.g[op.type]
         L == entry.l[<<op.type, op.inst>>]
     IN Direct = [i \in 1..(Len(G) + Len(L)) |->
                    [cb |-> IF i <= Len(G) THEN G[i] ELSE L[i - Len(G)],
                     msg |-> Message(op.type, op.inst), depth |-> 0]]

\* C2: a callback whose only registration is one local subscription for
\* (T, A) is invoked with messages of type T from A only, and a broadcast of
\* such a message invokes it exactly once.
OnlyLocal(F, c, pair) ==
  /\ \A T \in MessageTypes : ~In(c, F.g[T])
  /\ \A pr \in Pairs : Count(c, F.l[pr]) = IF pr = pair THEN 1 ELSE 0

C2_LocalScoping ==
  \A c \in Callbacks, pair \in LocalPairs :
    (/\ IsBus
     /\ op.name = "broadcast"
     /\ Returned
     /\ OnlyLocal(entry, c, pair)
     /\ OnlyLocal(Now, c, pair))
    => /\ \A i \in 1..Len(calls) :
            calls[i].cb = c => calls[i].msg = Message(pair[1], pair[2])
       /\ Message(op.type, op.inst) = Message(pair[1], pair[2])
            => Len(DirectTo(c)) = 1

\* C3: QueuingMessageBus.broadcast(m) appends m to the tail of the queue of
\* m's type and invokes no callback exactly when the global list of m's type
\* and the local list of (m's type, m.sender) were both empty; the queue then
\* grows by one and nothing else changes.
C3_QueueWhenNoSubscriber ==
  (IsQueuing /\ op.name = "broadcast" /\ ~hung)
  => LET T == op.type
         m == Message(op.type, op.inst)
         none == entry.g[T] = <<>> /\ entry.l[<<T, op.inst>>] = <<>>
         queued == calls = <<>> /\ message_queue[T] = Append(entry.q[T], m)
     IN /\ none <=> queued
        /\ none => /\ err = None
                   /\ queue_len(T) = Len(entry.q[T]) + 1
                   /\ global_receivers = entry.g
                   /\ local_receivers = entry.l
                   /\ \A U \in MessageTypes \ {T} : message_queue[U] = entry.q[U]

C3_Witness ==
  /\ IsQueuing
  /\ op.name = "broadcast"
  /\ calls = <<>>
  /\ entry.l[<<op.type, OtherSender(op.inst)>>] # <<>>
  /\ Len(entry.q[op.type]) = 1
  /\ queue_len(op.type) = 2

\* C4: QueuingMessageBus.subscribe_globally(T, cb) with a callback that only
\* returns invokes cb exactly once with each message that was pending for T,
\* in queue order, and leaves the queue of T empty and the other queues as
\* they were.
C4_ReplayOnGlobalSubscribe ==
  (IsQueuing /\ op.name = "subscribe_globally" /\ op.cb \in Plain /\ Returned)
  => /\ SelectSeq(calls, LAMBDA c : c.cb = op.cb) = Deliveries(op.cb, entry.q[op.type])
     /\ queue_len(op.type) = 0
     /\ \A U \in MessageTypes \ {op.type} : message_queue[U] = entry.q[U]

\* C5: QueuingMessageBus.subscribe_locally(T, s, cb) invokes cb once with
\* each pending message of T whose sender is s, in queue order, and removes
\* exactly those messages, keeping the others in order.
C5_ReplayOnLocalSubscribe ==
  (IsQueuing /\ op.name = "subscribe_locally" /\ Returned)
  => /\ DirectTo(op.cb) =
          Deliveries(op.cb, SelectSeq(entry.q[op.type], LAMBDA m : m.sender = op.inst))
     /\ message_queue[op.type] =
          SelectSeq(entry.q[op.type], LAMBDA m : m.sender # op.inst)

\* C6: after a completed subscribe call on a QueuingMessageBus no pending
\* message has a matching registered subscriber (it was delivered to the
\* first matching subscriber registered after it was queued, and removed).
C6_NoPendingWithSubscriber ==
  (IsQueuing /\ op.name \in {"subscribe_globally", "subscribe_locally"} /\ Returned)
  => \A T \in MessageTypes : \A i \in 1..Len(message_queue[T]) :
       /\ global_receivers[T] = <<>>
       /\ local_receivers[<<T, message_queue[T][i].sender>>] = <<>>

\* C7: when callbacks subscribe or unsubscribe during a broadcast, that
\* broadcast still invokes each callback once per registration it had when
\* the broadcast started: none of them is skipped, none added meanwhile is
\* invoked.
C7_StableDispatch ==
  (/\ IsBus
   /\ op.name = "broadcast"
   /\ Returned
   /\ (global_receivers # entry.g \/ local_receivers # entry.l))
  => \A c \in Callbacks :
       Len(DirectTo(c)) =
         Count(c, entry.g[op.type]) + Count(c, entry.l[<<op.type, op.inst>>])

\* C8: unsubscribing a callback that is not registered fails with an error
\* and changes nothing; unsubscribing a registered one succeeds and removes
\* (one registration of) it.  MessageBus.unsubscribe_globally,
\* MessageBus.unsubscribe_locally and SimpleMessageBus.unsubscribe.
C8_UnsubscribeUnregistered ==
  /\ (IsBus /\ op.name = "unsubscribe_globally")
     => IF In(op.cb, entry.g[op.type])
        THEN /\ err = None
             /\ WithoutFirst(global_receivers[op.type], entry.g[op.type], op.cb)
             /\ \A U \in MessageTypes \ {op.type} : global_receivers[U] = entry.g[U]
             /\ local_receivers = entry.l /\ message_queue = entry.q
        ELSE err # None /\ Now = entry /\ calls = <<>>
  /\ (IsBus /\ op.name = "unsubscribe_locally")
     => LET pair == <<op.type, op.inst>> IN
        IF In(op.cb, entry.l[pair])
        THEN /\ err = None
             /\ WithoutFirst(local_receivers[pair], entry.l[pair], op.cb)
             /\ \A pr \in Pairs \ {pair} : local_receivers[pr] = entry.l[pr]
             /\ global_receivers = entry.g /\ message_queue = entry.q
        ELSE err # None /\ Now = entry /\ calls = <<>>
  /\ (IsSimple /\ op.name = "unsubscribe")
     => IF In(op.cb, entry.cbs[op.type])
        THEN /\ err = None
             /\ WithoutFirst(_callbacks[op.type], entry.cbs[op.type], op.cb)
             /\ \A t \in Tags \ {op.type} : _callbacks[t] = entry.cbs[t]
        ELSE err # None /\ SimpleNow = entry /\ calls = <<>>

C8_Witness ==
  /\ IsBus
  /\ op.name = "unsubscribe_locally"
  /\ err = "AssertionError"
  /\ In(op.cb, global_receivers[op.type])
  /\ local_receivers[<<op.type, op.inst>>] # <<>>

\* C9: discard_globally, discard_locally and SimpleMessageBus.discard of a
\* callback that is not registered for the type (and sender) raise nothing
\* and leave every field of the bus as it was.
C9_DiscardUnregistered ==
  /\ (IsBus /\ op.name = "discard_globally" /\ ~In(op.cb, entry.g[op.type]))
     => err = None /\ ~hung /\ Now = entry /\ calls = <<>>
  /\ (IsBus /\ op.name = "discard_locally" /\ ~In(op.cb, entry.l[<<op.type, op.inst>>]))
     => err = None /\ ~hung /\ Now = entry /\ calls = <<>>
  /\ (IsSimple /\ op.name = "discard" /\ ~In(op.cb, entry.cbs[op.type]))
     => err = None /\ SimpleNow = entry /\ calls = <<>>

C9_Witness ==
  /\ IsQueuing
  /\ op.name = "discard_globally"
  /\ ~In(op.cb, entry.g[op.type])
  /\ In(op.cb, entry.l[<<op.type, "A">>])
  /\ entry.g[op.type] # <<>>
  /\ \E T \in MessageTypes : queue_len(T) > 0

\* C10: SimpleMessageBus.subscribe(type, cb) raises TypeError when type is
\* not one of the bus's message types, raises another error (Exception) when
\* cb is already registered for type, and changes nothing in both cases;
\* otherwise it appends cb to the list of type.
C10_SimpleSubscribe ==
  (IsSimple /\ op.name = "subscribe")
  => IF op.type \notin entry.types
     THEN err = "TypeError" /\ SimpleNow = entry
     ELSE IF In(op.cb, entry.cbs[op.type])
     THEN err = "Exception" /\ err # "TypeError" /\ SimpleNow = entry
     ELSE /\ err = None
          /\ _message_types = entry.types
          /\ _callbacks = [entry.cbs EXCEPT ![op.type] = Append(@, op.cb)]

C10_Witness ==
  /\ IsSimple
  /\ op.name = "subscribe"
  /\ err = "Exception"
  /\ Len(_callbacks[op.type]) = 2

\* C11: SimpleMessageBus.broadcast(type, payload) with a type outside the
\* bus's message types raises nothing, invokes no callback and changes
\* nothing; otherwise it invokes, with the payload, every callback that was
\* registered for type exactly once, in subscription order, and no callback
\* that is not registered for type.
C11_TypedBroadcast ==
  (IsSimple /\ op.name = "broadcast")
  => IF op.type \notin entry.types
     THEN err = None /\ calls = <<>> /\ SimpleNow = entry
     ELSE err = None
          => LET R == entry.cbs[op.type] IN
             /\ SelectSeq(Direct, LAMBDA c : In(c.cb, R))
                  = [i \in 1..Len(R) |-> [cb |-> R[i], msg |-> op.args, depth |-> 0]]
             /\ \A i \in 1..Len(Direct) :
                  In(Direct[i].cb, R) \/ In(Direct[i].cb, _callbacks[op.type])

\* C12: reset() never fails; it emits one diagnostic entry for each key of
\* the global registry and of the local registry whose list is not empty
\* (none when both registries are empty) and releases the shared instance:
\* the next access finds both registries empty, and no later dispatch invokes
\* a callback that was subscribed before the reset and not since.
Registered(F) ==
  {c \in Callbacks : \/ \E T \in MessageTypes : In(c, F.g[T])
                     \/ \E pr \in Pairs : In(c, F.l[pr])}

C12_ResetLifecycle ==
  /\ (IsBus /\ op.name = "reset")
     => /\ err = None /\ ~hung /\ calls = <<>>
        /\ \A T \in MessageTypes :
             Cardinality({e \in log : e.registry = "global" /\ e.key = T})
               = IF entry.g[T] = <<>> THEN 0 ELSE 1
        /\ \A pr \in Pairs :
             Cardinality({e \in log : e.registry = "local" /\ e.key = pr})
               = IF entry.l[pr] = <<>> THEN 0 ELSE 1
        /\ Cardinality(log)
             = Cardinality({T \in MessageTypes : entry.g[T] # <<>>})
               + Cardinality({pr \in Pairs : entry.l[pr] # <<>>})
        /\ \A T \in MessageTypes : global_receivers[T] = <<>>
        /\ \A pr \in Pairs : local_receivers[pr] = <<>>
        /\ old = old \cup Registered(entry)
  /\ IsBus => /\ Registered(Now) \cap old = {}
              /\ \A i \in 1..Len(calls) : calls[i].cb \notin old

C12_Witness ==
  /\ IsBus
  /\ op.name = "broadcast"
  /\ old # {}
  /\ calls # <<>>
  /\ \E T \in MessageTypes : Len(global_receivers[T]) > 0

\* C13: with callbacks that only return, QueuingMessageBus.broadcast(m) with
\* a subscriber registered globally for m's type or locally for (m's type,
\* m.sender) dispatches m at once and leaves every queue, the backlog of m's
\* type included, as it was.
C13_DispatchKeepsBacklog ==
  (/\ IsQueuing
   /\ op.name = "broadcast"
   /\ \A c \in Registered(entry) : c \in Plain
   /\ \/ entry.g[op.type] # <<>>
      \/ entry.l[<<op.type, op.inst>>] # <<>>)
  => /\ Returned
     /\ calls # <<>>
     /\ \A i \in 1..Len(calls) : calls[i].msg = Message(op.type, op.inst)
     /\ message_queue = entry.q

C13_Witness ==
  /\ IsQueuing
  /\ op.name = "broadcast"
  /\ calls # <<>>
  /\ entry.g[op.type] = <<>>
  /\ Len(entry.q[op.type]) > 0
  /\ message_queue[op.type] = entry.q[op.type]

\* C14: QueuingMessageBus.clear(T) invokes no callback and empties the queue
\* of T: queue_len(T) = 0, the queues of the other types and both registries
\* are as they were.  A later subscribe delivers only messages that are
\* pending when it is called, so none that was cleared.
C14_Clear ==
  /\ (IsQueuing /\ op.name = "clear")
     => /\ Returned
        /\ calls = <<>>
        /\ queue_len(op.type) = 0
        /\ \A U \in MessageTypes \ {op.type} : message_queue[U] = entry.q[U]
        /\ global_receivers = entry.g
        /\ local_receivers = entry.l
  /\ (/\ IsQueuing
      /\ op.name \in {"subscribe_globally", "subscribe_locally"}
      /\ \A c \in Registered(Now) : c \in Plain)
     => \A i \in 1..Len(calls) : In(calls[i].msg, entry.q[op.type])

C14_Witness ==
  /\ IsQueuing
  /\ op.name = "clear"
  /\ Len(entry.q[op.type]) > 0
  /\ \E U \in MessageTypes \ {op.type} : queue_len(U) > 0
  /\ \E pr \in Pairs : Len(local_receivers[pr]) > 0

\* C15: an error raised by a callback is not caught by the bus.  The
\* broadcast, or the QueuingMessageBus.subscribe_globally call whose replay
\* dispatched, ends with that error; the raising invocation is the last one
\* (the callbacks after it in the dispatch order are not invoked), and the
\* registries are as they were when the dispatch started.
Raised == \E i \in 1..Len(calls) : calls[i].cb = "boom"

\* The invocations a dispatch over the lists G then L makes up to the first
\* invocation of boom.
UpToBoom(G, L, m) ==
  LET order == G \o L
      stop == IF In("boom", order) THEN IndexOf("boom", order) ELSE Len(order)
  IN [i \in 1..stop |-> [cb |-> order[i], msg |-> m, depth |-> 0]]

C15_CallbackErrorPropagates ==
  /\ err = "CallbackError" <=> Raised
  /\ Raised => /\ calls[Len(calls)].cb = "boom"
               /\ \A i \in 1..(Len(calls) - 1) : calls[i].cb # "boom"
  /\ (IsBus /\ op.name = "broadcast" /\ calls # <<>>)
     => /\ calls = UpToBoom(entry.g[op.type], entry.l[<<op.type, op.inst>>],
                            Message(op.type, op.inst))
        /\ global_receivers = entry.g
        /\ local_receivers = entry.l
  /\ (IsQueuing /\ op.name = "subscribe_globally" /\ Raised)
     => /\ global_receivers = [entry.g EXCEPT ![op.type] = Append(@, op.cb)]
        /\ local_receivers = entry.l
        /\ LET m == calls[Len(calls)].msg
               last == UpToBoom(global_receivers[op.type],
                                local_receivers[<<op.type, m.sender>>], m)
           IN /\ In(m, entry.q[op.type])
              /\ Len(last) <= Len(calls)
              /\ SubSeq(calls, Len(calls) - Len(last) + 1, Len(calls)) = last
  /\ (IsSimple /\ op.name = "broadcast" /\ calls # <<>>)
     => /\ calls = UpToBoom(entry.cbs[op.type], <<>>, op.args)
        /\ SimpleNow = entry

C15_Witness ==
  /\ IsQueuing
  /\ op.name = "subscribe_globally"
  /\ err = "CallbackError"
  /\ Len(calls) = 1
  /\ local_receivers[<<op.type, calls[1].msg.sender>>] # <<>>

\* C16: QueuingMessageBus.subscribe_globally(T, cb) terminates, also when a
\* replayed callback unsubscribes or broadcasts during the replay, and it
\* replays only messages that were pending for T when it was called: a
\* message queued during the replay is not replayed by the same call.
C16_ReplayTerminates ==
  (IsQueuing /\ op.name = "subscribe_globally")
  => /\ ~hung
     /\ \A i \in 1..Len(Direct) : In(Direct[i].msg, entry.q[op.type])

\* C17: discard_globally and discard_locally are idempotent: in every state
\* of the bus, discarding a callback twice leaves the bus as discarding it
\* once does, and after one discard the callback is not registered for the
\* type (or the type and sender) any more.
C17_DiscardIdempotent ==
  IsBus =>
    /\ \A T \in MessageTypes, cb \in app :
         LET once == discard_globally(Self, T, cb) IN
         /\ discard_globally(once, T, cb) = once
         /\ ~In(cb, once.g[T])
    /\ \A pr \in LocalPairs, cb \in app :
         LET once == discard_locally(Self, pr[1], pr[2], cb) IN
         /\ discard_locally(once, pr[1], pr[2], cb) = once
         /\ ~In(cb, once.l[pr])

\* C18: on a QueuingMessageBus whose callbacks only return, whenever a
\* callback is registered globally for a type T, the queue of T is empty.
C18_NoBacklogWithGlobalSubscriber ==
  (IsQueuing /\ Returned)
  => \A T \in MessageTypes : global_receivers[T] # <<>> => queue_len(T) = 0

C18_Witness ==
  /\ IsQueuing
  /\ op.name = "subscribe_globally"
  /\ entry.g[op.type] = <<>>
  /\ Len(entry.q[op.type]) = 2
  /\ entry.q[op.type][1] # entry.q[op.type][2]
  /\ queue_len(op.type) = 0

\* C19: on a SimpleMessageBus no callback occurs twice in the list of a
\* type, a type outside the bus's message types has no callback, and no call
\* changes the message types.
C19_TypedInvariant ==
  IsSimple
  => /\ \A t \in Tags, c \in Callbacks : Count(c, _callbacks[t]) <= 1
     /\ \A t \in Tags \ _message_types : _callbacks[t] = <<>>
     /\ _message_types = entry.types
     /\ _message_types = SimpleMessageBus_init({"foo", "bar"}).types

C19_Witness ==
  /\ IsSimple
  /\ op.name = "subscribe"
  /\ op.type \notin _message_types
  /\ err = "TypeError"
  /\ \E t \in _message_types : Len(_callbacks[t]) = 2

\* C20: on a QueuingMessageBus (callbacks that only return) a message is
\* handed to callbacks in one dispatch pass at most, and a message that was
\* handed to a callback is not pending afterwards: in every call, each
\* message that was pending or is being broadcast either is still pending or
\* was dispatched once, to the subscribers matching it, never both; a
\* message that is not pending any more is not replayed to a later
\* subscriber.
Handed(m) == Len(SelectSeq(calls, LAMBDA c : c.msg = m))
Fanout(m) ==
  Len(global_receivers[m.class]) + Len(local_receivers[<<m.class, m.sender>>])

C20_AtMostOnceReplay ==
  (/\ IsQueuing
   /\ Returned
   /\ op.name \in {"broadcast", "subscribe_globally", "subscribe_locally"})
  => \A m \in Messages :
       LET sent == IF op.name = "broadcast" /\ m = Message(op.type, op.inst)
                   THEN 1 ELSE 0
           before == Count(m, entry.q[m.class]) + sent
           after == Count(m, message_queue[m.class])
       IN /\ after <= before
          /\ Handed(m) = (before - after) * Fanout(m)
          /\ Handed(m) > 0 => after < before

C20_Witness ==
  /\ IsQueuing
  /\ op.name = "subscribe_globally"
  /\ Len(entry.q[op.type]) = 2
  /\ entry.q[op.type][1] = entry.q[op.type][2]
  /\ local_receivers[<<op.type, entry.q[op.type][1].sender>>] # <<>>
  /\ Len(calls) = 4

====
